---- MODULE Spec2Model ----
(***************************************************************************)
(* A model of redux-create-fetcher (src/index.js).                         *)
(*                                                                         *)
(* Fetcher(actionPrefix, paramsFunc) is constructed once (Init); the       *)
(* function it returns is then invoked, key => dispatch => ..., up to      *)
(* NumInvocations times.  Each invocation runs its synchronous part        *)
(* (lines 22-51) in one step and continues in the callbacks of the fetch   *)
(* promise (lines 52-62), which interleave freely with the other           *)
(* invocations.                                                            *)
(*                                                                         *)
(* effects[i] is the sequence of calls invocation i made on its            *)
(* collaborators, in program order: dispatch(action), fetch(url, options), *)
(* console.error(...) and deferredSuccess(value).                          *)
(***************************************************************************)
EXTENDS Integers, Sequences, FiniteSets, TLC

\* Bounds of the model.
NumInvocations == 2
MaxCapCalls == 2

Invocations == 1..NumInvocations

\* JavaScript's undefined, and the names of the values of the model.
Undefined == "undefined"
Keys == {"alice", "bob"}
FunctionNames ==
    {"friendsURL", "getOptions", "postOptions", "identity", "startsWithA",
     "throwingParser", "mugshot"}

\* typeof v, for the values the model passes around (names of functions,
\* strings, undefined).
TypeOf(v) ==
    IF v = Undefined THEN "undefined"
    ELSE IF v \in FunctionNames THEN "function"
    ELSE "string"

(***************************************************************************)
(* The inputs: what the caller hands to Fetcher.                           *)
(***************************************************************************)

\* actionPrefix: a string, or a value that is not one (here: undefined).
Prefixes ==
    {[type |-> "string", str |-> "FETCH_FRIENDS"],
     [type |-> "undefined", str |-> Undefined]}

\* The dictionary paramsFunc returns; an omitted option is undefined.
Configs ==
    [fetchURLFunc : {Undefined, "friendsURL"},
     fetchOptionsFunc : {Undefined, "postOptions"},
     responseType : {Undefined, "text", "xml"},
     parseResponse : {Undefined, "startsWithA", "throwingParser"},
     deferredSuccess : {Undefined, "mugshot"}]

EmptyConfig ==
    [fetchURLFunc |-> Undefined, fetchOptionsFunc |-> Undefined,
     responseType |-> Undefined, parseResponse |-> Undefined,
     deferredSuccess |-> Undefined]

\* paramsFunc: a function returning a dictionary, a function returning
\* undefined, or a value that is not a function.
ParamsFuncs ==
    [kind : {"returnsConfig"}, config : Configs]
    \cup [kind : {"returnsUndefined", "notFunction"}, config : {EmptyConfig}]

\* The response bodies the transport delivers, as token sequences, and the
\* error it rejects with.
Bodies ==
    {<<"[", "Al", ",", "Bob", "]">>,
     <<"[", "Al", ",">>}
TransportErrors == {"ECONNRESET"}

\* The dispatch handed to the invocations: the store's, or one that throws
\* while it handles a success action (a reducer or subscriber at fault).
Sinks == {"store", "throwsOnSuccess"}

\* The values the deferred collaborator hands to dispatchSuccessAction.
CapResults == {[type |-> "array", items |-> <<"Bob">>]}

VARIABLES
    actionPrefix,   \* Fetcher's first argument
    paramsFunc,     \* Fetcher's second argument
    sink,           \* the dispatch the invocations are called with
    key,            \* key[i]: the key invocation i was called with
    pc,             \* pc[i]: "idle", "fetching", "decoding" or "done"
    outcome,        \* outcome[i]: what the call returned to its caller
    response,       \* response[i]: how the fetch promise settled
    decoded,        \* decoded[i]: how response[responseType]() settled
    effects,        \* effects[i]: the calls made on the collaborators
    capArgs         \* capArgs[i]: the arguments user code called
                    \* invocation i's dispatchSuccessAction with

vars ==
    <<actionPrefix, paramsFunc, sink, key, pc, outcome, response, decoded,
      effects, capArgs>>

(***************************************************************************)
(* The caller's functions, by name.                                        *)
(***************************************************************************)

\* fetchURLFunc: user => '/api/' + user + '/friends/'
CallURLFunc(f, k) == "/api/" \o k \o "/friends/"

\* fetchOptionsFunc: the default key => ({ method: 'GET' }), or a caller's.
CallOptionsFunc(f, k) ==
    IF f = "getOptions" THEN [method |-> "GET"]
    ELSE [method |-> "POST", body |-> k]

Initial(name) ==
    CASE name = "Al" -> "A"
      [] name = "Bob" -> "B"
      [] OTHER -> "?"

StartsWithA(name) == Initial(name) = "A"

\* parseResponse: the default value => value, the caller's
\* friends => friends.filter(f => f.name.startsWith('A')), which throws a
\* TypeError on a value that is no array, or a caller's parser that throws.
CallParser(f, value) ==
    CASE f = "identity" -> [threw |-> FALSE, value |-> value]
      [] f = "startsWithA" /\ value.type = "array" ->
            [threw |-> FALSE,
             value |-> [type |-> "array",
                        items |-> SelectSeq(value.items, StartsWithA)]]
      [] OTHER -> [threw |-> TRUE, value |-> value]

(***************************************************************************)
(* The transport's decoding primitives, response[responseType]().          *)
(***************************************************************************)

ResponseMethods == {"arrayBuffer", "blob", "formData", "json", "text"}

Punctuation == {"[", "]", ","}

\* A JSON array of names: "[" name ("," name)* "]" or "[" "]".
IsJsonArray(body) ==
    /\ Len(body) >= 2
    /\ body[1] = "["
    /\ body[Len(body)] = "]"
    /\ Len(body) = 2 \/ Len(body) % 2 = 1
    /\ \A j \in 2..(Len(body) - 1) :
          IF j % 2 = 0 THEN body[j] \notin Punctuation ELSE body[j] = ","

JsonElements(body) ==
    [n \in 1..((Len(body) - 1) \div 2) |-> body[2 * n]]

\* response.json() parses the body and rejects with a SyntaxError when it
\* is not JSON; the other primitives hand the body over as it is.
Decode(responseType, body) ==
    IF responseType = "json"
    THEN IF IsJsonArray(body)
         THEN [ok |-> TRUE, error |-> Undefined,
               value |-> [type |-> "array", items |-> JsonElements(body)]]
         ELSE [ok |-> FALSE, error |-> "SyntaxError",
               value |-> [type |-> "string", items |-> <<>>]]
    ELSE [ok |-> TRUE, error |-> Undefined,
          value |-> [type |-> responseType, items |-> body]]

(***************************************************************************)
(* Fetcher (src/index.js).                                                 *)
(***************************************************************************)

requestAction(k) ==
    [type |-> actionPrefix.str \o "_REQUEST", key |-> k]

successAction(k, result) ==
    [type |-> actionPrefix.str \o "_SUCCESS", key |-> k, result |-> result]

failureAction(k, error) ==
    [type |-> actionPrefix.str \o "_FAILURE", key |-> k, error |-> error]

\* The calls on the collaborators.  via tells a dispatch made by the
\* operation's own code ("op") from one made by user code calling the
\* capability ("cap").
Dispatch(via, action) ==
    [eff |-> "dispatch", via |-> via, action |-> action]

Fetch(url, options) ==
    [eff |-> "fetch", url |-> url, options |-> options]

ConsoleError == [eff |-> "console.error"]

DeferredSuccess(value) == [eff |-> "deferredSuccess", value |-> value]

\* A Fetcher that keeps the key in a variable shared by its invocations:
\* the capability reads the key of the latest invocation.
dispatchSuccessActionSharedKey(k, result, via) ==
    LET started == {j \in Invocations : pc[j] # "idle"}
        latest == CHOOSE j \in started : \A m \in started : m <= j
    IN  <<Dispatch(via, successAction(key[latest], result))>>

\* A capability guarded by the invocation's state: it does nothing once
\* the invocation's fetch has failed.
dispatchSuccessActionGuarded(k, result, via) ==
    IF via = "cap"
       /\ \E j \in Invocations : key[j] = k /\ response[j].state = "rejected"
    THEN <<>>
    ELSE <<Dispatch(via, successAction(k, result))>>

\* const dispatchSuccessAction = result => { dispatch(successAction(...)) }
dispatchSuccessAction(k, result, via) ==
    <<Dispatch(via, successAction(k, result))>>

\* A destructuring that takes responseType from its default alone.
DestructureFixedType(config) ==
    [fetchURLFunc |-> config.fetchURLFunc,
     fetchOptionsFunc |->
        IF config.fetchOptionsFunc = Undefined THEN "getOptions"
        ELSE config.fetchOptionsFunc,
     responseType |-> "json",
     parseResponse |->
        IF config.parseResponse = Undefined THEN "identity"
        ELSE config.parseResponse,
     deferredSuccess |-> config.deferredSuccess]

\* The destructuring of paramsFunc's dictionary, with its defaults: a
\* default replaces an option that is undefined, and no other.
Destructure(config) ==
    [fetchURLFunc |-> config.fetchURLFunc,
     fetchOptionsFunc |->
        IF config.fetchOptionsFunc = Undefined THEN "getOptions"
        ELSE config.fetchOptionsFunc,
     responseType |->
        IF config.responseType = Undefined THEN "json"
        ELSE config.responseType,
     parseResponse |->
        IF config.parseResponse = Undefined THEN "identity"
        ELSE config.parseResponse,
     deferredSuccess |-> config.deferredSuccess]

\* The options in force in every invocation of this Fetcher.
Params == Destructure(paramsFunc.config)

\* A test that forgets fetchURLFunc.
ValidatedPrefixOnly(p) == actionPrefix.type = "string"

\* The test of lines 36-37, negated.
Validated(p) ==
    /\ actionPrefix.type = "string"
    /\ TypeOf(p.fetchURLFunc) = "function"

\* The request action forgotten: fetch is called at once.
RequestOmitted(p, k) ==
    <<Fetch(CallURLFunc(p.fetchURLFunc, k),
            CallOptionsFunc(p.fetchOptionsFunc, k))>>

\* The call of fetch issued before the request action is dispatched.
RequestAfterFetch(p, k) ==
    <<Fetch(CallURLFunc(p.fetchURLFunc, k),
            CallOptionsFunc(p.fetchOptionsFunc, k)),
      Dispatch("op", requestAction(k))>>

\* Lines 49-51: the request action, then the call of fetch.
Request(p, k) ==
    <<Dispatch("op", requestAction(k)),
      Fetch(CallURLFunc(p.fetchURLFunc, k),
            CallOptionsFunc(p.fetchOptionsFunc, k))>>

\* Lines 36-51, on the destructured options.
Validate(p, k) ==
    IF Validated(p)
    THEN [effects |-> Request(p, k), outcome |-> "pending",
          pc |-> "fetching"]
    ELSE [effects |-> <<ConsoleError>>, outcome |-> "undefined",
          pc |-> "done"]

\* The synchronous part of dispatch => { ... }, lines 24-51.  Calling a
\* paramsFunc that is no function, and destructuring undefined, throw a
\* TypeError to the caller.
Handler(k) ==
    IF paramsFunc.kind = "returnsConfig"
    THEN Validate(Params, k)
    ELSE [effects |-> <<>>, outcome |-> "threw", pc |-> "done"]

\* parseResponse forgotten: the decoded value dispatched as it is.
OnValueUnparsed(p, k, value) ==
    IF TypeOf(p.deferredSuccess) # "undefined"
    THEN [effects |-> <<DeferredSuccess(value)>>, outcome |-> "fulfilled"]
    ELSE [effects |-> dispatchSuccessAction(k, value, "op"),
          outcome |-> IF sink = "throwsOnSuccess" THEN "rejected"
                      ELSE "fulfilled"]

\* The return of line 56 forgotten: deferredSuccess is called and the
\* success action dispatched all the same.
OnValueFallThrough(p, k, value) ==
    LET parsed == CallParser(p.parseResponse, value)
        deferred == IF TypeOf(p.deferredSuccess) # "undefined"
                    THEN <<DeferredSuccess(value)>> ELSE <<>>
    IN  IF parsed.threw
        THEN [effects |-> deferred, outcome |-> "rejected"]
        ELSE [effects |-> deferred
                            \o dispatchSuccessAction(k, parsed.value, "op"),
              outcome |-> IF sink = "throwsOnSuccess" THEN "rejected"
                          ELSE "fulfilled"]

\* The handlers chained as then(onValue).catch(onError), the shape of the
\* README's hand-written fetchFriends: what parseResponse or dispatch throws
\* is caught and dispatched as a failure.
OnValueCaught(p, k, value) ==
    IF TypeOf(p.deferredSuccess) # "undefined"
    THEN [effects |-> <<DeferredSuccess(value)>>, outcome |-> "fulfilled"]
    ELSE LET parsed == CallParser(p.parseResponse, value)
         IN  IF parsed.threw
             THEN [effects |->
                      <<Dispatch("op", failureAction(k, "TypeError"))>>,
                   outcome |-> "fulfilled"]
             ELSE [effects |->
                      dispatchSuccessAction(k, parsed.value, "op")
                      \o IF sink = "throwsOnSuccess"
                         THEN <<Dispatch("op", failureAction(k, "Error"))>>
                         ELSE <<>>,
                   outcome |-> "fulfilled"]

\* Lines 53-59: the decoded value.  What parseResponse or dispatch throws
\* rejects the promise of the fulfilment handler.
OnValue(p, k, value) ==
    IF TypeOf(p.deferredSuccess) # "undefined"
    THEN [effects |-> <<DeferredSuccess(value)>>, outcome |-> "fulfilled"]
    ELSE LET parsed == CallParser(p.parseResponse, value)
         IN  IF parsed.threw
             THEN [effects |-> <<>>, outcome |-> "rejected"]
             ELSE [effects |-> dispatchSuccessAction(k, parsed.value, "op"),
                   outcome |-> IF sink = "throwsOnSuccess" THEN "rejected"
                               ELSE "fulfilled"]

\* The decoding error replaced by a message of the operation's own.
OnDecodeErrorWrapped(p, k, error) ==
    [effects |-> <<Dispatch("op", failureAction(k, "decoding failed"))>>,
     outcome |-> "fulfilled"]

\* The deferred path taken on the rejection too: with deferredSuccess set
\* the decoding error is handed to it and no failure is dispatched.
OnDecodeErrorDeferred(p, k, error) ==
    IF TypeOf(p.deferredSuccess) # "undefined"
    THEN [effects |->
            <<DeferredSuccess([type |-> "error", items |-> <<error>>])>>,
          outcome |-> "fulfilled"]
    ELSE [effects |-> <<Dispatch("op", failureAction(k, error))>>,
          outcome |-> "fulfilled"]

\* Line 60: the decoding primitive rejected.
OnDecodeError(p, k, error) ==
    [effects |-> <<Dispatch("op", failureAction(k, error))>>,
     outcome |-> "fulfilled"]

\* A latch shared by the invocations: once one of them has failed in the
\* transport, the failure of another is taken for a duplicate and dropped.
OnFetchErrorOnce(p, k, error) ==
    IF \E j \in Invocations : response[j].state = "rejected"
    THEN [effects |-> <<>>, outcome |-> "fulfilled"]
    ELSE [effects |-> <<Dispatch("op", failureAction(k, error))>>,
          outcome |-> "fulfilled"]

\* A retry: after the failure is dispatched fetch is called once more.
OnFetchErrorRetry(p, k, error) ==
    [effects |->
        <<Dispatch("op", failureAction(k, error)),
          Fetch(CallURLFunc(p.fetchURLFunc, k),
                CallOptionsFunc(p.fetchOptionsFunc, k))>>,
     outcome |-> "fulfilled"]

\* Line 62: fetch rejected.
OnFetchError(p, k, error) ==
    [effects |-> <<Dispatch("op", failureAction(k, error))>>,
     outcome |-> "fulfilled"]

(***************************************************************************)
(* The state machine.                                                      *)
(***************************************************************************)

NoResponse == [state |-> "none", body |-> <<>>, error |-> Undefined]
NoValue == [type |-> Undefined, items |-> <<>>]
NotDecoded == [state |-> "none", value |-> NoValue, error |-> Undefined]

\* The state after Fetcher(actionPrefix, paramsFunc) returned.
Init ==
    /\ actionPrefix \in Prefixes
    /\ paramsFunc \in ParamsFuncs
    /\ sink \in Sinks
    /\ key = [i \in Invocations |-> Undefined]
    /\ pc = [i \in Invocations |-> "idle"]
    /\ outcome = [i \in Invocations |-> "none"]
    /\ response = [i \in Invocations |-> NoResponse]
    /\ decoded = [i \in Invocations |-> NotDecoded]
    /\ effects = [i \in Invocations |-> <<>>]
    /\ capArgs = [i \in Invocations |-> <<>>]

\* fetcher(k)(dispatch): lines 22-51.  Invocations are numbered in the order
\* they are made.
Invoke(i, k) ==
    /\ pc[i] = "idle"
    /\ \A j \in Invocations : j < i => pc[j] # "idle"
    /\ LET r == Handler(k)
       IN  /\ key' = [key EXCEPT ![i] = k]
           /\ effects' = [effects EXCEPT ![i] = r.effects]
           /\ outcome' = [outcome EXCEPT ![i] = r.outcome]
           /\ pc' = [pc EXCEPT ![i] = r.pc]
    /\ UNCHANGED <<actionPrefix, paramsFunc, sink, response, decoded, capArgs>>

\* fetch's promise rejects: line 62.
FetchRejected(i, error) ==
    /\ pc[i] = "fetching"
    /\ LET r == OnFetchError(Params, key[i], error)
       IN  /\ effects' = [effects EXCEPT ![i] = @ \o r.effects]
           /\ outcome' = [outcome EXCEPT ![i] = r.outcome]
    /\ response' = [response EXCEPT ![i] =
                      [state |-> "rejected", body |-> <<>>, error |-> error]]
    /\ pc' = [pc EXCEPT ![i] = "done"]
    /\ UNCHANGED <<actionPrefix, paramsFunc, sink, key, decoded, capArgs>>

\* fetch's promise fulfils: line 52 calls response[responseType](), which
\* throws a TypeError when the response has no such method.
FetchFulfilled(i, body) ==
    /\ pc[i] = "fetching"
    /\ response' = [response EXCEPT ![i] =
                      [state |-> "fulfilled", body |-> body,
                       error |-> Undefined]]
    /\ IF Params.responseType \in ResponseMethods
       THEN /\ pc' = [pc EXCEPT ![i] = "decoding"]
            /\ UNCHANGED outcome
       ELSE /\ pc' = [pc EXCEPT ![i] = "done"]
            /\ outcome' = [outcome EXCEPT ![i] = "rejected"]
    /\ UNCHANGED <<actionPrefix, paramsFunc, sink, key, decoded, effects, capArgs>>

\* The decoding primitive's promise settles: lines 53-60.
Decoded(i) ==
    /\ pc[i] = "decoding"
    /\ LET d == Decode(Params.responseType, response[i].body)
           r == IF d.ok THEN OnValue(Params, key[i], d.value)
                ELSE OnDecodeError(Params, key[i], d.error)
       IN  /\ decoded' = [decoded EXCEPT ![i] =
                            [state |-> IF d.ok THEN "fulfilled" ELSE "rejected",
                             value |-> d.value, error |-> d.error]]
           /\ effects' = [effects EXCEPT ![i] = @ \o r.effects]
           /\ outcome' = [outcome EXCEPT ![i] = r.outcome]
    /\ pc' = [pc EXCEPT ![i] = "done"]
    /\ UNCHANGED <<actionPrefix, paramsFunc, sink, key, response, capArgs>>

\* deferredSuccess was called with invocation i's decoded value: from then
\* on the deferred collaborator may call dispatchSuccessAction, at a time of
\* its choosing (the image's onload of the README's example).
DeferredCalled(i) ==
    \E n \in 1..Len(effects[i]) : effects[i][n].eff = "deferredSuccess"

\* The deferred collaborator calls the capability of invocation i: lines
\* 24-26.
CallCapability(i, result) ==
    /\ DeferredCalled(i)
    /\ Len(capArgs[i]) < MaxCapCalls
    /\ effects' = [effects EXCEPT ![i] =
                     @ \o dispatchSuccessAction(key[i], result, "cap")]
    /\ capArgs' = [capArgs EXCEPT ![i] = Append(@, result)]
    /\ UNCHANGED <<actionPrefix, paramsFunc, sink, key, pc, outcome, response,
                   decoded>>

\* The steps of the operation's own code.
OperationStep ==
    \/ \E i \in Invocations, k \in Keys : Invoke(i, k)
    \/ \E i \in Invocations, e \in TransportErrors : FetchRejected(i, e)
    \/ \E i \in Invocations, b \in Bodies : FetchFulfilled(i, b)
    \/ \E i \in Invocations : Decoded(i)

Next ==
    \/ OperationStep
    \/ \E i \in Invocations, r \in CapResults : CallCapability(i, r)

Spec == Init /\ [][Next]_vars

(***************************************************************************)
(* User code that calls the capability whenever it likes.  paramsFunc is    *)
(* handed dispatchSuccessAction on line 34, before anything is validated    *)
(* or dispatched, and whatever keeps it may call it from then on.           *)
(***************************************************************************)

RECURSIVE SumLen(_, _)
SumLen(f, n) == IF n = 0 THEN 0 ELSE Len(f[n]) + SumLen(f, n - 1)

\* The calls of the capability made so far, over all invocations.
CapCallsMade == SumLen(capArgs, NumInvocations)

\* paramsFunc was called with the capability: it is a function.
HandedCapability == paramsFunc.kind # "notFunction"

\* The Fetchers whose capability is called at will: every paramsFunc that
\* is a function, with or without fetchURLFunc and deferredSuccess, the
\* other options left to their defaults.
FreeParamsFuncs ==
    {f \in ParamsFuncs :
        /\ f.kind # "notFunction"
        /\ f.config.fetchOptionsFunc = Undefined
        /\ f.config.responseType = Undefined
        /\ f.config.parseResponse = Undefined}

InitFree ==
    /\ Init
    /\ actionPrefix.type = "string"
    /\ paramsFunc \in FreeParamsFuncs

\* fetcher(k)(dispatch) with a paramsFunc that calls the capability before
\* it returns: lines 22-51, the success action of lines 24-26 first.  When
\* dispatch throws on it, the throw leaves paramsFunc and the handler.
InvokeEager(i, k, result) ==
    /\ pc[i] = "idle"
    /\ \A j \in Invocations : j < i => pc[j] # "idle"
    /\ HandedCapability
    /\ CapCallsMade < MaxCapCalls
    /\ LET early == dispatchSuccessAction(k, result, "cap")
           r == IF sink = "throwsOnSuccess"
                THEN [effects |-> <<>>, outcome |-> "threw", pc |-> "done"]
                ELSE Handler(k)
       IN  /\ key' = [key EXCEPT ![i] = k]
           /\ effects' = [effects EXCEPT ![i] = early \o r.effects]
           /\ outcome' = [outcome EXCEPT ![i] = r.outcome]
           /\ pc' = [pc EXCEPT ![i] = r.pc]
           /\ capArgs' = [capArgs EXCEPT ![i] = <<result>>]
    /\ UNCHANGED <<actionPrefix, paramsFunc, sink, response, decoded>>

\* User code calls the capability of invocation i, whatever the state of
\* the invocation: lines 24-26.
CallCapabilityAnytime(i, result) ==
    /\ pc[i] # "idle"
    /\ HandedCapability
    /\ CapCallsMade < MaxCapCalls
    /\ effects' = [effects EXCEPT ![i] =
                     @ \o dispatchSuccessAction(key[i], result, "cap")]
    /\ capArgs' = [capArgs EXCEPT ![i] = Append(@, result)]
    /\ UNCHANGED <<actionPrefix, paramsFunc, sink, key, pc, outcome, response,
                   decoded>>

NextFree ==
    \/ OperationStep
    \/ \E i \in Invocations, k \in Keys, r \in CapResults :
          InvokeEager(i, k, r)
    \/ \E i \in Invocations, r \in CapResults : CallCapabilityAnytime(i, r)

SpecFree == InitFree /\ [][NextFree]_vars

(***************************************************************************)
(* What the claims speak of.                                               *)
(***************************************************************************)

IsDispatch(e) == e.eff = "dispatch"
IsFetch(e) == e.eff = "fetch"
IsRequest(e) == IsDispatch(e) /\ e.action.type = "FETCH_FRIENDS_REQUEST"
IsSuccess(e) == IsDispatch(e) /\ e.action.type = "FETCH_FRIENDS_SUCCESS"
IsFailure(e) == IsDispatch(e) /\ e.action.type = "FETCH_FRIENDS_FAILURE"

\* The positions, in invocation i's effects, of its notifications and of
\* its network calls.
DispatchesAt(i) == {n \in 1..Len(effects[i]) : IsDispatch(effects[i][n])}
RequestsAt(i) == {n \in 1..Len(effects[i]) : IsRequest(effects[i][n])}
SuccessesAt(i) == {n \in 1..Len(effects[i]) : IsSuccess(effects[i][n])}
FailuresAt(i) == {n \in 1..Len(effects[i]) : IsFailure(effects[i][n])}
FetchesAt(i) == {n \in 1..Len(effects[i]) : IsFetch(effects[i][n])}

\* The inputs, as the caller gave them.
StringPrefix == actionPrefix.type = "string"
GivesConfig == paramsFunc.kind = "returnsConfig"
Given == paramsFunc.config
HasURLFunc == GivesConfig /\ Given.fetchURLFunc \in FunctionNames
ValidInputs == StringPrefix /\ HasURLFunc
WithDeferred == GivesConfig /\ Given.deferredSuccess # Undefined
Called(i) == pc[i] # "idle"

\* C1: an invocation with a string prefix and a fetchURLFunc function
\* dispatches exactly one request notification, {type: <prefix>_REQUEST,
\* key} with the key it was called with, and no call of fetch comes before
\* it.
C1_RequestBeforeFetch ==
    \A i \in Invocations :
        Called(i) /\ ValidInputs =>
            /\ Cardinality(RequestsAt(i)) = 1
            /\ \A n \in RequestsAt(i) :
                  effects[i][n].action =
                      [type |-> "FETCH_FRIENDS_REQUEST", key |-> key[i]]
            /\ \A m \in FetchesAt(i) : \E n \in RequestsAt(i) : n < m

\* A valid invocation that dispatched its request and then called fetch.
C1_Witness ==
    \E i \in Invocations :
        /\ ValidInputs
        /\ Cardinality(RequestsAt(i)) = 1
        /\ FetchesAt(i) # {}
        /\ \A m \in FetchesAt(i) : \E n \in RequestsAt(i) : n < m

\* What parseResponse makes of invocation i's decoded value.
Parsed(i) == CallParser(Params.parseResponse, decoded[i].value)

\* The network call succeeded and the body decoded to a value, in an
\* invocation without deferredSuccess that has run to its end.
DecodedToValue(i) ==
    /\ pc[i] = "done"
    /\ ~WithDeferred
    /\ response[i].state = "fulfilled"
    /\ decoded[i].state = "fulfilled"

ExactlyOneSuccessParsed(i) ==
    /\ Cardinality(SuccessesAt(i)) = 1
    /\ \A n \in SuccessesAt(i) :
          effects[i][n].action =
              [type |-> "FETCH_FRIENDS_SUCCESS", key |-> key[i],
               result |-> Parsed(i).value]

TransportFailed(i) == response[i].state = "rejected"
DecodingFailed(i) == decoded[i].state = "rejected"
UnderlyingError(i) ==
    IF TransportFailed(i) THEN response[i].error ELSE decoded[i].error

\* C3: after a transport failure or a decoding failure, exactly one failure
\* notification {type: <prefix>_FAILURE, key, error} has been dispatched,
\* its error is the underlying error, and no success notification has been
\* dispatched for the invocation.
C3_FailureNotified ==
    \A i \in Invocations :
        TransportFailed(i) \/ DecodingFailed(i) =>
            /\ Cardinality(FailuresAt(i)) = 1
            /\ \A n \in FailuresAt(i) :
                  effects[i][n].action =
                      [type |-> "FETCH_FRIENDS_FAILURE", key |-> key[i],
                       error |-> UnderlyingError(i)]
            /\ SuccessesAt(i) = {}

\* One invocation failed in the transport and another in the decoding, each
\* with its failure notification.
C3_Witness ==
    \E i, j \in Invocations :
        /\ TransportFailed(i)
        /\ DecodingFailed(j)
        /\ \E n \in FailuresAt(i) :
              effects[i][n].action.error = "ECONNRESET"
        /\ \E n \in FailuresAt(j) :
              effects[j][n].action.error = "SyntaxError"

\* C4 as stated: an invocation that passed validation and has no
\* deferredSuccess has, once its asynchronous sequence has finished,
\* dispatched exactly one of a success and a failure notification.
C4_ExactlyOneOutcome ==
    \A i \in Invocations :
        pc[i] = "done" /\ ValidInputs /\ ~WithDeferred =>
            Cardinality(SuccessesAt(i)) + Cardinality(FailuresAt(i)) = 1

\* The success notifications of invocation i, in the order of their dispatch.
SuccessActions(i) ==
    LET hits == SelectSeq(effects[i], IsSuccess)
    IN  [n \in 1..Len(hits) |-> hits[n].action]

\* C5: with deferredSuccess set, the operation's own code dispatches no
\* success notification, and the success notifications of an invocation are
\* those of the calls of its capability, one for each call in the order of
\* the calls, each with the call's argument as result (parseResponse is not
\* applied to it) and the invocation's key.
C5_DeferredSuccessByCapability ==
    \A i \in Invocations :
        WithDeferred =>
            /\ \A n \in SuccessesAt(i) : effects[i][n].via = "cap"
            /\ SuccessActions(i) =
                  [n \in 1..Len(capArgs[i]) |->
                      [type |-> "FETCH_FRIENDS_SUCCESS", key |-> key[i],
                       result |-> capArgs[i][n]]]

\* A deferred invocation whose capability was called twice with ["Bob"],
\* under a parseResponse that would have filtered "Bob" out.
C5_Witness ==
    \E i \in Invocations :
        /\ WithDeferred
        /\ Given.parseResponse = "startsWithA"
        /\ pc[i] = "done"
        /\ Len(capArgs[i]) = 2
        /\ Cardinality(SuccessesAt(i)) = 2
        /\ \A n \in SuccessesAt(i) :
              effects[i][n].action.result =
                  [type |-> "array", items |-> <<"Bob">>]

\* C6: when the dictionary paramsFunc returns has no fetchURLFunc function,
\* or the prefix is not a string, the invocation dispatches no notification
\* of any kind and calls fetch not at all.
C6_InvalidInputsNoEffect ==
    \A i \in Invocations :
        Called(i) /\ (~StringPrefix \/ (GivesConfig /\ ~HasURLFunc)) =>
            /\ DispatchesAt(i) = {}
            /\ FetchesAt(i) = {}

\* An invocation of a Fetcher whose dictionary lacks fetchURLFunc: it has
\* logged the diagnostic and returned.
C6_Witness ==
    \E i \in Invocations :
        /\ StringPrefix
        /\ GivesConfig
        /\ ~HasURLFunc
        /\ pc[i] = "done"
        /\ effects[i] = <<ConsoleError>>
        /\ outcome[i] = "undefined"

\* The inputs are malformed: the prefix is no string, paramsFunc is no
\* function or returns no dictionary, or the dictionary has no fetchURLFunc
\* function.
Malformed == ~StringPrefix \/ ~GivesConfig \/ ~HasURLFunc

\* C7 as stated: on every malformed input the operation does not throw to
\* its caller; it logs a diagnostic and returns, having dispatched nothing
\* and called fetch not at all.
C7_MalformedNeverThrows ==
    \A i \in Invocations :
        Called(i) /\ Malformed =>
            /\ outcome[i] # "threw"
            /\ effects[i] = <<ConsoleError>>

\* C8 as stated: no error raised in an invocation reaches the caller, as a
\* thrown exception or as a rejected asynchronous outcome.
C8_ErrorsContained ==
    \A i \in Invocations : outcome[i] \notin {"threw", "rejected"}

\* C9: every notification dispatched on behalf of an invocation, through
\* the operation or through the invocation's capability, carries the key
\* the invocation was called with.
C9_KeyCarried ==
    \A i \in Invocations :
        \A n \in DispatchesAt(i) : effects[i][n].action.key = key[i]

\* Two invocations with different keys, the second made before the first
\* one's capability dispatched its success notification last of all.
C9_Witness ==
    \E i, j \in Invocations :
        /\ i < j
        /\ Called(j)
        /\ key[i] # key[j]
        /\ RequestsAt(j) # {}
        /\ RequestsAt(i) # {}
        /\ Len(effects[i]) \in SuccessesAt(i)
        /\ Len(capArgs[i]) = 1

\* C10: a default applies exactly when its option is omitted, and a
\* supplied option is used as supplied.  fetchOptionsFunc defaults to a
\* function giving {method: 'GET'}, and nothing else, for every key;
\* responseType defaults to "json"; parseResponse defaults to the identity.
\* The options passed to fetch, the decoding applied to the body and the
\* result dispatched are those of the option in force.
C10_Defaults ==
    /\ GivesConfig =>
          /\ Params.fetchOptionsFunc =
                IF Given.fetchOptionsFunc = Undefined THEN "getOptions"
                ELSE Given.fetchOptionsFunc
          /\ Params.responseType =
                IF Given.responseType = Undefined THEN "json"
                ELSE Given.responseType
          /\ Params.parseResponse =
                IF Given.parseResponse = Undefined THEN "identity"
                ELSE Given.parseResponse
    /\ \A k \in Keys : CallOptionsFunc("getOptions", k) = [method |-> "GET"]
    /\ \A i \in Invocations :
          /\ \A n \in FetchesAt(i) :
                effects[i][n].options =
                    IF Given.fetchOptionsFunc = Undefined
                    THEN [method |-> "GET"]
                    ELSE CallOptionsFunc(Given.fetchOptionsFunc, key[i])
          /\ decoded[i].state = "fulfilled" =>
                decoded[i].value.type =
                    IF Given.responseType = Undefined THEN "array"
                    ELSE Given.responseType
          /\ response[i].state = "fulfilled" /\ pc[i] = "done" =>
                (decoded[i].state = "none" <=> Given.responseType = "xml")
          /\ Given.parseResponse = Undefined =>
                \A n \in SuccessesAt(i) :
                    effects[i][n].via = "op" =>
                        effects[i][n].action.result = decoded[i].value

\* A Fetcher given responseType "text" and neither fetchOptionsFunc nor
\* parseResponse: fetch was called with {method: 'GET'}, the body was
\* decoded as text and the text dispatched as it is.
C10_Witness ==
    \E i \in Invocations :
        /\ GivesConfig
        /\ Given.responseType = "text"
        /\ Given.fetchOptionsFunc = Undefined
        /\ Given.parseResponse = Undefined
        /\ pc[i] = "done"
        /\ \E n \in FetchesAt(i) : effects[i][n].options = [method |-> "GET"]
        /\ \E n \in SuccessesAt(i) :
              /\ effects[i][n].action.result.type = "text"
              /\ effects[i][n].action.result = decoded[i].value

\* A call the operation's own code made, as opposed to one user code made
\* through the capability.
IsOwn(e) == ~(IsDispatch(e) /\ e.via = "cap")

\* The call that ends the operation's part in an invocation: its own
\* success or failure notification, or the call of deferredSuccess.
IsTerminal(e) ==
    \/ (IsSuccess(e) \/ IsFailure(e)) /\ e.via = "op"
    \/ e.eff = "deferredSuccess"

OwnEffects(i) == SelectSeq(effects[i], IsOwn)
TerminalsAt(i) == {n \in 1..Len(effects[i]) : IsTerminal(effects[i][n])}

\* SUCCEEDED, FAILED or DEFERRED.
InTerminalState(i) == TerminalsAt(i) # {}

RequestPrecedesTerminal ==
    \A i \in Invocations :
        \A n \in TerminalsAt(i) : \E m \in RequestsAt(i) : m < n

NoTransitionAfterTerminal ==
    \A i \in Invocations :
        InTerminalState(i) => OwnEffects(i)' = OwnEffects(i)

\* C11: IDLE -> REQUESTED -> {SUCCEEDED | FAILED | DEFERRED}.  The success
\* or failure notification the operation itself dispatches (and its call of
\* deferredSuccess) comes after the invocation's request notification, and
\* once the invocation is SUCCEEDED, FAILED or DEFERRED the operation's own
\* code makes no further call for it.
C11_StateMachine ==
    /\ []RequestPrecedesTerminal
    /\ [][NoTransitionAfterTerminal]_vars

\* One invocation SUCCEEDED and another FAILED, each after its request.
C11_Witness ==
    \E i, j \in Invocations :
        /\ pc[i] = "done"
        /\ pc[j] = "done"
        /\ \E n \in TerminalsAt(i) : IsSuccess(effects[i][n])
        /\ \E n \in TerminalsAt(j) : IsFailure(effects[j][n])
        /\ RequestsAt(i) # {}
        /\ RequestsAt(j) # {}

\* The call returned a promise (pending or settled), rather than undefined
\* or nothing at all.
ReturnedPromise(i) == outcome[i] \in {"pending", "fulfilled", "rejected"}

\* The validation of lines 36-47 failed.
ValidationFailed(i) ==
    Called(i) /\ GivesConfig /\ ~(StringPrefix /\ HasURLFunc)

\* C12 as stated: the operation always returns an asynchronous outcome; for
\* a valid invocation it resolves only after the success or failure
\* notification was dispatched or deferredSuccess was called, and for a
\* validation failure it is an outcome that has resolved at once.
C12_ReturnsAsyncOutcome ==
    \A i \in Invocations :
        Called(i) =>
            /\ ReturnedPromise(i)
            /\ ValidInputs /\ outcome[i] = "fulfilled" => InTerminalState(i)
            /\ ValidationFailed(i) => outcome[i] = "fulfilled"

\* The notifications dispatched for invocation i, in order.
Notifications(i) ==
    LET hits == SelectSeq(effects[i], IsDispatch)
    IN  [n \in 1..Len(hits) |-> hits[n].action]

\* What invocation i dispatches when it runs alone, from its own key, the
\* way its own fetch and decoding settled and the calls of its own
\* capability: the request; then the failure with the error, or the success
\* with the parsed value, or nothing (deferred, an error that escaped, or
\* not settled yet); then one success for each call of the capability.
AloneOutcome(i) ==
    IF TransportFailed(i) \/ DecodingFailed(i)
    THEN <<[type |-> "FETCH_FRIENDS_FAILURE", key |-> key[i],
            error |-> UnderlyingError(i)]>>
    ELSE IF decoded[i].state = "fulfilled" /\ ~WithDeferred
            /\ ~Parsed(i).threw
    THEN <<[type |-> "FETCH_FRIENDS_SUCCESS", key |-> key[i],
            result |-> Parsed(i).value]>>
    ELSE <<>>

AloneNotifications(i) ==
    IF Called(i) /\ ValidInputs
    THEN <<[type |-> "FETCH_FRIENDS_REQUEST", key |-> key[i]]>>
         \o AloneOutcome(i)
         \o [n \in 1..Len(capArgs[i]) |->
                [type |-> "FETCH_FRIENDS_SUCCESS", key |-> key[i],
                 result |-> capArgs[i][n]]]
    ELSE <<>>

NotificationsAsAlone ==
    \A i \in Invocations : Notifications(i) = AloneNotifications(i)

\* A step made for one invocation leaves what was dispatched, fetched and
\* logged for every other invocation as it was.
OthersUntouched ==
    \A i, j \in Invocations :
        i # j /\ effects[i]' # effects[i] => effects[j]' = effects[j]

DeferredCallsAt(i) ==
    {n \in 1..Len(effects[i]) : effects[i][n].eff = "deferredSuccess"}

\* C14: with deferredSuccess set, it is called exactly once, with the
\* decoded value, when the network call and the decoding both succeeded, and
\* never otherwise; after a transport failure the body is never decoded; and
\* a transport or decoding failure dispatches its failure notification just
\* as without deferredSuccess.
C14_DeferredOnlyOnValue ==
    \A i \in Invocations :
        /\ TransportFailed(i) => pc[i] = "done" /\ decoded[i].state = "none"
        /\ WithDeferred =>
              /\ Cardinality(DeferredCallsAt(i)) =
                    IF response[i].state = "fulfilled"
                       /\ decoded[i].state = "fulfilled"
                    THEN 1 ELSE 0
              /\ \A n \in DeferredCallsAt(i) :
                    effects[i][n].value = decoded[i].value
              /\ TransportFailed(i) \/ DecodingFailed(i) =>
                    /\ Cardinality(FailuresAt(i)) = 1
                    /\ \A n \in FailuresAt(i) :
                          effects[i][n].action =
                              [type |-> "FETCH_FRIENDS_FAILURE",
                               key |-> key[i],
                               error |-> UnderlyingError(i)]

\* Of two invocations of a Fetcher with deferredSuccess, one handed the
\* decoded array to deferredSuccess and the other failed in the decoding and
\* dispatched its failure.
C14_Witness ==
    \E i, j \in Invocations :
        /\ WithDeferred
        /\ Cardinality(DeferredCallsAt(i)) = 1
        /\ \E n \in DeferredCallsAt(i) :
              effects[i][n].value =
                  [type |-> "array", items |-> <<"Al", "Bob">>]
        /\ DecodingFailed(j)
        /\ DeferredCallsAt(j) = {}
        /\ Cardinality(FailuresAt(j)) = 1

\* The invocation has failed: its failure notification was dispatched, or
\* its inputs were malformed.
HasFailed(i) == FailuresAt(i) # {} \/ (Called(i) /\ Malformed)

AtMostOneFetch ==
    \A i \in Invocations :
        /\ Cardinality(FetchesAt(i)) <= 1
        /\ Called(i) /\ Malformed => FetchesAt(i) = {}

NothingAfterFailure ==
    \A i \in Invocations : HasFailed(i) => effects[i]' = effects[i]

\* C15: failures are terminal.  An invocation calls fetch at most once, and
\* not at all when validation fails; after its failure notification or its
\* validation failure no further call of fetch and no further notification
\* is made for it.
C15_FailuresTerminal ==
    /\ []AtMostOneFetch
    /\ [][NothingAfterFailure]_vars

\* An invocation that failed in the transport after its one call of fetch,
\* while a later one is still waiting for its response.
C15_Witness ==
    \E i, j \in Invocations :
        /\ i < j
        /\ TransportFailed(i)
        /\ Cardinality(FetchesAt(i)) = 1
        /\ Cardinality(FailuresAt(i)) = 1
        /\ Len(effects[i]) = 3
        /\ pc[j] = "fetching"

OwnSuccessesAt(i) == {n \in SuccessesAt(i) : effects[i][n].via = "op"}

\* parseResponse threw on invocation i's decoded value.
ParserThrew(i) ==
    /\ pc[i] = "done"
    /\ ~WithDeferred
    /\ decoded[i].state = "fulfilled"
    /\ Parsed(i).threw

\* dispatch threw while it handled the operation's success notification.
SuccessDispatchThrew(i) ==
    sink = "throwsOnSuccess" /\ OwnSuccessesAt(i) # {}

C16_ParserWitness ==
    \E i \in Invocations : ParserThrew(i) /\ DispatchesAt(i) = RequestsAt(i)

\* The success notifications user code dispatched through invocation i's
\* capability, in order.
CapabilityActions(i) ==
    LET hits == SelectSeq(effects[i], IsSuccess)
        caps == SelectSeq(hits, LAMBDA e : e.via = "cap")
    IN  [n \in 1..Len(caps) |-> caps[n].action]

\* C17: the capability is not guarded by the invocation's state.  Every
\* call of it, before the request notification, while the fetch is pending,
\* after a failure notification or after the outcome resolved, dispatches
\* exactly one success notification with the invocation's key and the call's
\* argument; so with deferredSuccess the success notifications of an
\* invocation are as many as the calls of its capability.
C17_CapabilityUnguarded ==
    \A i \in Invocations :
        /\ CapabilityActions(i) =
              [n \in 1..Len(capArgs[i]) |->
                  [type |-> "FETCH_FRIENDS_SUCCESS", key |-> key[i],
                   result |-> capArgs[i][n]]]
        /\ WithDeferred => Cardinality(SuccessesAt(i)) = Len(capArgs[i])

\* With deferredSuccess set, the capability was called before the request
\* notification and again after the failure notification, the last call of
\* all, of an invocation whose outcome has resolved: two calls, two success
\* notifications.
C17_Witness ==
    \E i \in Invocations :
        /\ WithDeferred
        /\ outcome[i] = "fulfilled"
        /\ Len(capArgs[i]) = 2
        /\ Cardinality(SuccessesAt(i)) = 2
        /\ 1 \in SuccessesAt(i)
        /\ 2 \in RequestsAt(i)
        /\ 4 \in FailuresAt(i)
        /\ 5 \in SuccessesAt(i)

====
